---------------------------- MODULE Spec2Model ----------------------------
(***************************************************************************)
(* Document store subsystem of the RAG application: embedding provider     *)
(* resolution, the Chroma vector store manager, the JSON fallback store    *)
(* and the retrieval facade (scripts/chromadb_setup.py,                     *)
(* scripts/rag_pipeline.py).                                                *)
(*                                                                         *)
(* Every function of the source is an operator that returns the SET of     *)
(* outcomes the call can have: the outcomes of the external collaborators  *)
(* (the Chroma library, the embedding backends, the file system) are not   *)
(* decided by this code, so each of them is a choice.  An action applies   *)
(* one whole handler and picks one of its outcomes.                        *)
(***************************************************************************)
EXTENDS Integers, Sequences, FiniteSets, TLC

VARIABLES
    store,    \* records held by the vector store under the persist directory
    file,     \* the fallback JSON file: absent, unparsable, or an array
    op,       \* name of the last operation that ran
    args,     \* its arguments and the environment it ran in
    trace,    \* the events of the last operation (the steps of the calls in
              \* progress, where calls are followed step by step), in order
    raised,   \* whether the last operation raised to its caller
    ret,      \* what the last operation returned
    local     \* the local variables of the calls that are followed step by step

vars == <<store, file, op, args, trace, raised, ret, local>>

----------------------------------------------------------------------------
(* Bounds of the model *)

MaxFile == 2      \* records the fallback file may hold
MaxStore == 2     \* records the vector store may hold
MaxTexts == 2     \* texts of one ingest call
MaxK == 2         \* largest k of a search

----------------------------------------------------------------------------
(* Values *)

\* Python's None, and an optional value: <<>> is None, <<x>> is x.
None == <<>>
Some(x) == <<x>>

\* A string is a sequence of characters.
EmptyStr == <<>>
TextAb == <<"A", " ", "b">>
TextB == <<"b">>

\* A metadata mapping is a set of <<key, value>> pairs.
EmptyMeta == {}
MetaX == {<<"source", "x">>}

Min(a, b) == IF a < b THEN a ELSE b

\* Decimal rendering of an f-string field.
Str(n) == ToString(n)

\* f"doc-{n}" numbered from the length before the append, not after it.
DocId_FromZero(n) == "doc-" \o Str(n - 1)

\* f"doc-{n}"
DocId(n) == "doc-" \o Str(n)

----------------------------------------------------------------------------
(* str.lower() and str.split() *)

LowerChar(c) ==
    CASE c = "A" -> "a"
      [] c = "B" -> "b"
      [] OTHER -> c

Lower(s) == [i \in 1..Len(s) |-> LowerChar(s[i])]

IsSpace(c) == c = " "

\* set(s.split()): the maximal runs of non-whitespace characters of s
TokenSet(s) ==
    { SubSeq(s, i, j) : <<i, j>> \in
        { p \in (1..Len(s)) \X (1..Len(s)) :
            /\ p[1] <= p[2]
            /\ \A x \in p[1]..p[2] : ~IsSpace(s[x])
            /\ (p[1] = 1 \/ IsSpace(s[p[1] - 1]))
            /\ (p[2] = Len(s) \/ IsSpace(s[p[2] + 1])) } }

----------------------------------------------------------------------------
(* Exception messages.  A message is a sequence of words; str(e).lower()   *)
(* lowers each word and `kw in msg` holds when a word of msg is kw.        *)

LowerWord(w) ==
    CASE w = "Embedding" -> "embedding"
      [] w = "MISMATCH" -> "mismatch"
      [] w = "Shape" -> "shape"
      [] OTHER -> w

LowerMsg(m) == [i \in 1..Len(m) |-> LowerWord(m[i])]

Contains(m, kw) == \E i \in 1..Len(m) : m[i] = kw

\* chromadb's InvalidDimensionException:
\* "Embedding dimension 384 does not match collection dimensionality 32"
MsgChromaDim == <<"Embedding", "dimension">>
MsgEmbedding == <<"embedding", "failed">>
MsgMismatch == <<"MISMATCH">>
MsgShape == <<"Shape">>
MsgDisk == <<"disk", "full">>

Msgs == {MsgChromaDim, MsgEmbedding, MsgMismatch, MsgShape, MsgDisk}

----------------------------------------------------------------------------
(* Embedding provider resolution *)

\* Length of the vectors of _fake_embed: s.ljust(32, "\0")[:32]
FakeDim == 32
\* Length of the vectors of the default local model, all-MiniLM-L6-v2
ModelDim == 384

\* The environment get_embedding_function runs in: which libraries the
\* import block found, whether GROQ_API_KEY is set, and what each
\* constructor does when it is called.
ProviderEnvs ==
    [ groqLib : BOOLEAN,                      \* _GroqEmbeddings is not None
      groqKey : BOOLEAN,                      \* os.getenv("GROQ_API_KEY")
      groqCtor : {"ok", "TypeError", "Exception"},  \* _GroqEmbeddings(api_key=..)
      groqCtor0 : {"ok", "Exception"},        \* _GroqEmbeddings()
      groqShape : {"embed_documents", "embed", "none"},
      hfLib : BOOLEAN,                        \* _HuggingFaceEmbeddings is not None
      hfCtor : {"ok", "Exception"},
      stLib : BOOLEAN,                        \* _SentenceTransformer is not None
      stCtor : {"ok", "Exception"} ]

\* A handler that catches TypeError only.
ExceptTypeErrorOnly(exc) == exc = "TypeError"

\* `except Exception` catches every exception class of the model.
ExceptException(exc) == exc \in {"TypeError", "Exception"}

\* No embedding function.
NoFn == [tier |-> "None", method |-> "None"]

\* What the code of one tier does: return a function, fall through to the
\* code of the next tier, or raise.
TierReturn(fn) == [kind |-> "return", fn |-> fn, exc |-> "none"]
NextTier == [kind |-> "next", fn |-> NoFn, exc |-> "none"]
Raise(exc) == [kind |-> "raise", fn |-> NoFn, exc |-> exc]

\* Tier 1, lines 85-96.
GroqTier(e) ==
    IF ~(e.groqLib /\ e.groqKey) THEN NextTier
    ELSE LET exc == IF e.groqCtor = "ok" THEN "none"
                    ELSE IF e.groqCtor = "TypeError"
                         THEN (IF e.groqCtor0 = "ok" THEN "none" ELSE e.groqCtor0)
                         ELSE e.groqCtor
         IN IF exc = "none"
            THEN CASE e.groqShape = "embed_documents" ->
                        TierReturn([tier |-> "groq", method |-> "embed_documents"])
                   [] e.groqShape = "embed" ->
                        TierReturn([tier |-> "groq", method |-> "embed"])
                   [] OTHER -> NextTier
            ELSE IF ExceptException(exc) THEN NextTier ELSE Raise(exc)

\* Tier 2, lines 98-104.
HuggingFaceTier(e) ==
    IF ~e.hfLib THEN NextTier
    ELSE IF e.hfCtor = "ok"
         THEN TierReturn([tier |-> "hf", method |-> "embed_documents"])
         ELSE IF ExceptException(e.hfCtor) THEN NextTier ELSE Raise(e.hfCtor)

\* Tier 3, lines 106-112.
SentenceTransformerTier(e) ==
    IF ~e.stLib THEN NextTier
    ELSE IF e.stCtor = "ok"
         THEN TierReturn([tier |-> "st", method |-> "encode"])
         ELSE IF ExceptException(e.stCtor) THEN NextTier ELSE Raise(e.stCtor)

\* Tier 4, lines 114-115.
FakeTier == TierReturn([tier |-> "fake", method |-> "_fake_embed"])

\* The tiers are tried in this order; the first that does not fall through
\* decides the call.
get_embedding_function(e) ==
    LET t1 == GroqTier(e)
        t2 == HuggingFaceTier(e)
        t3 == SentenceTransformerTier(e)
    IN  IF t1.kind # "next" THEN t1
        ELSE IF t2.kind # "next" THEN t2
        ELSE IF t3.kind # "next" THEN t3
        ELSE FakeTier

\* Length of the vectors an embedding function produces.
EmbDim(fn) == IF fn.tier = "fake" THEN FakeDim ELSE ModelDim

\* What an external call does: it returns, or raises with a message.
Ok == [ok |-> TRUE, msg |-> <<>>]
Fail(m) == [ok |-> FALSE, msg |-> m]
Outcomes == {Ok} \cup {Fail(m) : m \in Msgs}

Ev(name, o) == [ev |-> name, ok |-> o.ok, msg |-> o.msg]

----------------------------------------------------------------------------
(* Vector store manager *)

\* The vector store under the persist directory is a sequence of records
\* [page_content, metadata, dim]; dim is the length of the record's vector.

\* Line 161 with the pattern of line 192.
OpenPatternMatches_AsAdd(m) ==
    LET msg == LowerMsg(m)
    IN  Contains(msg, "dimension") \/ Contains(msg, "mismatch")
            \/ Contains(msg, "shape")

\* Line 161: the failures of an open that lead to a reinitialization.
OpenPatternMatches(m) ==
    LET msg == LowerMsg(m)
    IN  Contains(msg, "dimension") \/ Contains(msg, "embedding")
            \/ Contains(msg, "mismatch")

\* Line 192 with the pattern of line 161.
AddPatternMatches_AsOpen(m) ==
    LET msg == LowerMsg(m)
    IN  Contains(msg, "dimension") \/ Contains(msg, "embedding")
            \/ Contains(msg, "mismatch")

\* Line 192 without "shape".
AddPatternMatches_NoShape(m) ==
    LET msg == LowerMsg(m)
    IN  Contains(msg, "dimension") \/ Contains(msg, "mismatch")

\* Line 192: the failures of an add that lead to a reinitialization.
AddPatternMatches(m) ==
    LET msg == LowerMsg(m)
    IN  Contains(msg, "dimension") \/ Contains(msg, "mismatch")
            \/ Contains(msg, "shape")

\* _reinit_chroma_dir that leaves the records of the directory in place.
reinit_chroma_dir_Keep(st, rmOk) == st

\* _reinit_chroma_dir, lines 128-139: rmtree and mkdir; a failure of either
\* is logged and swallowed, and leaves the directory as it was.
reinit_chroma_dir(st, rmOk) == IF rmOk THEN <<>> ELSE st

\* The calls into the libraries and the file system of one handler run may
\* fail; n is the number of failures the run may still meet.
Choices(all, n) == IF n > 0 THEN all ELSE {o \in all : o.ok}
Cost(o) == IF o.ok THEN 0 ELSE 1
Bools(n) == IF n > 0 THEN BOOLEAN ELSE {TRUE}
BoolCost(b) == IF b THEN 0 ELSE 1

DbResult(isRaised, db, fn, st, tr, n) ==
    [raised |-> isRaised, db |-> db, fn |-> fn, store |-> st, trace |-> tr,
     n |-> n]

\* get_chroma_db, lines 141-172.  chroma: the import of Chroma succeeded;
\* opens: what a call of Chroma(...) may do.  db is TRUE for a handle,
\* FALSE for None.
get_chroma_db(st, e, chroma, opens, n) ==
    LET r == get_embedding_function(e)
    IN  IF r.kind = "raise" THEN {DbResult(TRUE, FALSE, NoFn, st, <<>>, n)}
        ELSE IF ~chroma THEN {DbResult(FALSE, FALSE, r.fn, st, <<>>, n)}
        ELSE UNION {
          IF o1.ok
          THEN {DbResult(FALSE, TRUE, r.fn, st, <<Ev("open", o1)>>, n)}
          ELSE IF OpenPatternMatches(o1.msg)
          THEN UNION {
                 { DbResult(FALSE, o2.ok, r.fn, reinit_chroma_dir(st, rm),
                       <<Ev("open", o1),
                         [ev |-> "reinit", ok |-> rm, msg |-> <<>>],
                         Ev("open", o2)>>,
                       n - 1 - BoolCost(rm) - Cost(o2))
                   : o2 \in Choices(opens, n - 1 - BoolCost(rm)) }
                 : rm \in Bools(n - 1) }
          ELSE {DbResult(FALSE, FALSE, r.fn, st, <<Ev("open", o1)>>, n - 1)}
          : o1 \in Choices(opens, n) }

\* metadatas or [{} for _ in texts]
MetasOrEmpty(texts, metadatas) ==
    IF metadatas = None
    THEN [i \in 1..Len(texts) |-> EmptyMeta]
    ELSE metadatas

\* db.add_texts that has stored the first text when it raises.
add_texts_Partial(st, texts, metadatas, fn, o) ==
    LET docs == [i \in 1..Len(texts) |->
                    [page_content |-> texts[i],
                     metadata |-> MetasOrEmpty(texts, metadatas)[i],
                     dim |-> EmbDim(fn)]]
    IN  IF ~o.ok
        THEN [ok |-> FALSE, msg |-> o.msg, store |-> st \o SubSeq(docs, 1, 1)]
        ELSE IF st # <<>> /\ st[1].dim # EmbDim(fn)
        THEN [ok |-> FALSE, msg |-> MsgChromaDim, store |-> st]
        ELSE [ok |-> TRUE, msg |-> <<>>, store |-> st \o docs]

\* db.add_texts(texts, metadatas) on a store bound to fn.  o is what the
\* library call does for reasons of its own; an index that holds vectors of
\* another length refuses the add with chromadb's dimension message.
add_texts(st, texts, metadatas, fn, o) ==
    IF ~o.ok THEN [ok |-> FALSE, msg |-> o.msg, store |-> st]
    ELSE IF st # <<>> /\ st[1].dim # EmbDim(fn)
    THEN [ok |-> FALSE, msg |-> MsgChromaDim, store |-> st]
    ELSE [ok |-> TRUE, msg |-> <<>>,
          store |-> st \o [i \in 1..Len(texts) |->
                             [page_content |-> texts[i],
                              metadata |-> MetasOrEmpty(texts, metadatas)[i],
                              dim |-> EmbDim(fn)]]]

\* db.similarity_search(query, k) on a store bound to fn: the k nearest
\* records as Document objects.  The ranking is the library's; the model
\* returns the records in stored order.
similarity_search(st, k, fn, o) ==
    IF ~o.ok THEN [ok |-> FALSE, msg |-> o.msg, docs |-> <<>>]
    ELSE IF st # <<>> /\ st[1].dim # EmbDim(fn)
    THEN [ok |-> FALSE, msg |-> MsgChromaDim, docs |-> <<>>]
    ELSE [ok |-> TRUE, msg |-> <<>>,
          docs |-> [i \in 1..Min(k, Len(st)) |->
                      [kind |-> "Document",
                       page_content |-> st[i].page_content,
                       metadata |-> st[i].metadata]]]

----------------------------------------------------------------------------
(* Fallback store *)

\* The file is [kind |-> "absent" | "corrupt" | "array", items |-> records];
\* a record is [kind |-> "dict", id, text, metadata, embedding], embedding
\* being the length of the stored vector.
Absent == [kind |-> "absent", items |-> <<>>]
Corrupt == [kind |-> "corrupt", items |-> <<>>]
Array(items) == [kind |-> "array", items |-> items]

\* Lines 211-216 without the read: items stays [].
load_items_Fresh(f) == <<>>

\* Lines 211-216: FALLBACK_STORE.exists(), json.loads, except -> [].
load_items(f) == IF f.kind = "array" THEN f.items ELSE <<>>

\* Line 222 with the metadata of the caller dropped.
MetaAt_Dropped(metadatas, i) == EmptyMeta

\* Line 222.
MetaAt(metadatas, i) ==
    IF metadatas # None /\ i <= Len(metadatas) THEN metadatas[i] ELSE EmptyMeta

\* Lines 218-224: the loop from its i-th iteration on (i counts from 1).
RECURSIVE append_loop(_, _, _, _, _)
append_loop(items, texts, metadatas, embs, i) ==
    IF i > Len(texts) THEN items
    ELSE append_loop(
            Append(items, [kind |-> "dict",
                           id |-> DocId(Len(items) + 1),
                           text |-> texts[i],
                           metadata |-> MetaAt(metadatas, i),
                           embedding |-> embs[i]]),
            texts, metadatas, embs, i + 1)

\* What write_text may do: write the whole text; fail before the file is
\* opened (the file is as before); fail after the truncating open (the file
\* holds a prefix of the text, which does not parse).
WriteOutcomes == {"written", "not_opened", "partial"}

AddResult(isRaised, st, f, tr) ==
    [raised |-> isRaised, store |-> st, file |-> f, trace |-> tr]

\* Lines 210-226.  embOk: embedding_fn(texts) returns.
fallback_append(st, f, texts, metadatas, fn, tr, n) ==
    LET items == load_items(f)
        tr1 == Append(tr, [ev |-> "load", ok |-> f.kind # "corrupt", msg |-> <<>>])
    IN  UNION {
          IF ~embOk
          THEN {AddResult(TRUE, st, f,
                    Append(tr1, [ev |-> "embed", ok |-> FALSE, msg |-> <<>>]))}
          ELSE LET embs == [i \in 1..Len(texts) |-> EmbDim(fn)]
                   new == append_loop(items, texts, metadatas, embs, 1)
                   tr2 == Append(tr1, [ev |-> "embed", ok |-> TRUE, msg |-> <<>>])
               IN  { CASE w = "written" ->
                            AddResult(FALSE, st, Array(new),
                                Append(tr2, [ev |-> "write", ok |-> TRUE, msg |-> <<>>]))
                       [] w = "not_opened" ->
                            AddResult(TRUE, st, f,
                                Append(tr2, [ev |-> "write", ok |-> FALSE, msg |-> <<>>]))
                       [] OTHER ->
                            AddResult(TRUE, st, Corrupt,
                                Append(tr2, [ev |-> "write", ok |-> FALSE, msg |-> <<>>]))
                     : w \in IF n > 0 THEN WriteOutcomes ELSE {"written"} }
          : embOk \in Bools(n) }

----------------------------------------------------------------------------
(* Ingest *)

\* add_documents_to_chroma, lines 174-226.  opens, adds: what Chroma(...)
\* and db.add_texts may do.  db.persist() changes nothing the model holds
\* and its failure is swallowed (lines 183-186, 199-202).
add_documents_to_chroma(st, f, texts, metadatas, e, chroma, opens, adds, n) ==
    UNION {
      IF g.raised THEN {AddResult(TRUE, g.store, f, g.trace)}
      ELSE IF ~g.db
      THEN fallback_append(g.store, f, texts, metadatas, g.fn, g.trace, g.n)
      ELSE UNION {
        LET a == add_texts(g.store, texts, metadatas, g.fn, o1)
            tr1 == Append(g.trace, Ev("add_texts", a))
            n1 == g.n - Cost(o1)
        IN  IF a.ok THEN {AddResult(FALSE, a.store, f, tr1)}
            ELSE IF AddPatternMatches(a.msg)
            THEN UNION {
              LET st2 == reinit_chroma_dir(a.store, rm)
                  tr2 == Append(tr1, [ev |-> "reinit", ok |-> rm, msg |-> <<>>])
              IN  UNION {
                    IF g2.raised
                    THEN {AddResult(TRUE, g2.store, f, tr2 \o g2.trace)}
                    ELSE IF ~g2.db
                    THEN fallback_append(g2.store, f, texts, metadatas, g.fn,
                                         tr2 \o g2.trace, g2.n)
                    ELSE UNION {
                      LET a2 == add_texts(g2.store, texts, metadatas, g2.fn, o2)
                          tr3 == Append(tr2 \o g2.trace, Ev("add_texts", a2))
                      IN  IF a2.ok THEN {AddResult(FALSE, a2.store, f, tr3)}
                          ELSE fallback_append(a2.store, f, texts, metadatas,
                                               g.fn, tr3, g2.n - Cost(o2))
                      : o2 \in Choices(adds, g2.n) }
                    : g2 \in get_chroma_db(st2, e, chroma, opens,
                                           n1 - BoolCost(rm)) }
              : rm \in Bools(n1) }
            ELSE fallback_append(a.store, f, texts, metadatas, g.fn, tr1, n1)
        : o1 \in Choices(adds, g.n) }
      : g \in get_chroma_db(st, e, chroma, opens, n) }

----------------------------------------------------------------------------
(* Retrieval *)

\* len(qtokens & set(d.get("text", "").lower().split())), line 243
Score(qtokens, d) == Cardinality(qtokens \cap TokenSet(Lower(d.text)))

\* A sort that puts x in front of the elements of equal score.
InsertDesc_Unstable(s, x) ==
    LET n == Cardinality({i \in 1..Len(s) : s[i][1] > x[1]})
    IN  SubSeq(s, 1, n) \o <<x>> \o SubSeq(s, n + 1, Len(s))

\* scored.sort(key=lambda x: x[0], reverse=True): list.sort is stable, also
\* with reverse=True.  Insert x into s, sorted by descending score, behind
\* every element whose score is at least x's.
InsertDesc(s, x) ==
    LET n == Cardinality({i \in 1..Len(s) : s[i][1] >= x[1]})
    IN  SubSeq(s, 1, n) \o <<x>> \o SubSeq(s, n + 1, Len(s))

RECURSIVE SortDesc(_)
SortDesc(s) ==
    IF s = <<>> THEN <<>>
    ELSE InsertDesc(SortDesc(SubSeq(s, 1, Len(s) - 1)), s[Len(s)])

\* s[:k]
Slice(s, k) ==
    IF k >= 0 THEN SubSeq(s, 1, Min(k, Len(s)))
    ELSE SubSeq(s, 1, IF Len(s) + k > 0 THEN Len(s) + k ELSE 0)

\* Lines 240-246.
rank(data, query, k) ==
    LET qtokens == TokenSet(Lower(query))
        scored == [i \in 1..Len(data) |-> <<Score(qtokens, data[i]), data[i]>>]
        top == Slice(SortDesc(scored), k)
    IN  [i \in 1..Len(top) |-> top[i][2]]

SearchResult(isRaised, docs, st, tr) ==
    [raised |-> isRaised, ret |-> docs, store |-> st, trace |-> tr]

\* Lines 236-246: the search of the fallback file.
fallback_search(st, f, query, k, tr) ==
    IF f.kind = "absent"
    THEN SearchResult(FALSE, <<>>, st,
            Append(tr, [ev |-> "exists", ok |-> FALSE, msg |-> <<>>]))
    ELSE LET tr1 == Append(tr, [ev |-> "exists", ok |-> TRUE, msg |-> <<>>])
         IN  IF f.kind = "corrupt"
             THEN \* json.loads raises; nothing catches it
                  SearchResult(TRUE, <<>>, st,
                      Append(tr1, [ev |-> "read", ok |-> FALSE, msg |-> <<>>]))
             ELSE SearchResult(FALSE, rank(f.items, query, k), st,
                      Append(tr1, [ev |-> "read", ok |-> TRUE, msg |-> <<>>]))

\* search_chroma that takes an empty result of the vector store for a
\* failure and goes on to the fallback store.
search_chroma_EmptyFallsBack(st, f, query, k, e, chroma, opens, sims, n) ==
    UNION {
      IF g.raised THEN {SearchResult(TRUE, <<>>, g.store, g.trace)}
      ELSE IF ~g.db THEN {fallback_search(g.store, f, query, k, g.trace)}
      ELSE { LET s == similarity_search(g.store, k, g.fn, o)
                 tr1 == Append(g.trace, Ev("similarity_search", s))
             IN  IF s.ok /\ s.docs # <<>>
                 THEN SearchResult(FALSE, s.docs, g.store, tr1)
                 ELSE fallback_search(g.store, f, query, k, tr1)
             : o \in Choices(sims, g.n) }
      : g \in get_chroma_db(st, e, chroma, opens, n) }

\* search_chroma, lines 228-246.
search_chroma(st, f, query, k, e, chroma, opens, sims, n) ==
    UNION {
      IF g.raised THEN {SearchResult(TRUE, <<>>, g.store, g.trace)}
      ELSE IF ~g.db THEN {fallback_search(g.store, f, query, k, g.trace)}
      ELSE { LET s == similarity_search(g.store, k, g.fn, o)
                 tr1 == Append(g.trace, Ev("similarity_search", s))
             IN  IF s.ok THEN SearchResult(FALSE, s.docs, g.store, tr1)
                 ELSE fallback_search(g.store, f, query, k, tr1)
             : o \in Choices(sims, g.n) }
      : g \in get_chroma_db(st, e, chroma, opens, n) }

\* getattr(d, name, None): a Document has page_content and metadata; a dict
\* has no attribute of these names.
GetAttr(d, name) ==
    IF d.kind = "Document" /\ name = "page_content" THEN Some(d.page_content)
    ELSE IF d.kind = "Document" /\ name = "metadata" THEN Some(d.metadata)
    ELSE None

\* bool(x) of an optional string: None and "" are falsy.
TruthyStr(x) == x # None /\ x[1] # EmptyStr

\* bool(x) of an optional mapping: None and {} are falsy.
TruthyMap(x) == x # None /\ x[1] # EmptyMeta

\* a or b
PyOrStr(a, b) == IF TruthyStr(a) THEN a ELSE b
PyOrMap(a, b) == IF TruthyMap(a) THEN a ELSE b

\* _normalize_docs, lines 34-48, for one item.  getattr with a default does
\* not raise, so the except clause of lines 42-47 is never entered.
normalize_doc(d) ==
    LET content == PyOrStr(PyOrStr(GetAttr(d, "page_content"),
                                   GetAttr(d, "content")),
                           GetAttr(d, "text"))
        metadata == PyOrMap(PyOrMap(GetAttr(d, "metadata"), GetAttr(d, "meta")),
                            Some(EmptyMeta))
    IN  [text |-> content, metadata |-> metadata]

normalize_docs(docs) == [i \in 1..Len(docs) |-> normalize_doc(docs[i])]

\* k of run_query(query, k=3) and of search_chroma(query, k=3)
DefaultK == 3

\* run_query, lines 50-67: `search_chroma(query, k) or []`, normalized.
\* The answer is the LLM's or, when the call fails, the tagged error string
\* of line 66; either way run_query returns.
run_query(st, f, query, k, e, chroma, opens, sims, n) ==
    { IF s.raised
      THEN [raised |-> TRUE, ret |-> None, store |-> s.store, trace |-> s.trace]
      ELSE [raised |-> FALSE,
            ret |-> [result |-> "answer",
                     source_documents |-> normalize_docs(s.ret)],
            store |-> s.store, trace |-> s.trace]
      : s \in search_chroma(st, f, query, k, e, chroma, opens, sims, n) }

----------------------------------------------------------------------------
(* The system: the persist directory and the fallback file, and the calls  *)
(* the application makes on them, one at a time.                           *)

\* Failures of libraries and file system one call may meet.
MaxFaults == 2

\* Texts and metadata of the ingest calls.
TextPool == {TextAb, TextB}
TextsIn == UNION {[1..n -> TextPool] : n \in 1..MaxTexts}

\* The application passes one {"source": ..} mapping per text (app.py, lines
\* 27, 40, 58); a caller may also pass no metadatas.
IngestCalls ==
    {[texts |-> t, metadatas |-> [i \in 1..Len(t) |-> MetaX]] : t \in TextsIn}
        \cup {[texts |-> <<TextB>>, metadatas |-> None]}

\* Queries: "B  a" and "b".
QueryPool == {<<"B", " ", " ", "a">>, <<"b">>}

\* Two environments: nothing but the stub is available; the local model is.
EnvStub ==
    [groqLib |-> FALSE, groqKey |-> FALSE, groqCtor |-> "ok", groqCtor0 |-> "ok",
     groqShape |-> "embed_documents", hfLib |-> FALSE, hfCtor |-> "ok",
     stLib |-> FALSE, stCtor |-> "ok"]
EnvLocal == [EnvStub EXCEPT !.hfLib = TRUE]
SmallEnvs == {EnvStub, EnvLocal}

\* What the library calls may do in the calls of the system.
OpenOutcomes == {Ok, Fail(MsgChromaDim), Fail(MsgDisk)}
AddOutcomes == {Ok, Fail(MsgShape), Fail(MsgEmbedding), Fail(MsgDisk)}
SimOutcomes == {Ok, Fail(MsgDisk)}

Idle ==
    /\ op = "idle"
    /\ args = None
    /\ trace = <<>>
    /\ raised = FALSE
    /\ ret = None

Init ==
    /\ store = <<>>
    /\ file = Absent
    /\ Idle
    /\ local = None

\* The application ingests texts (app.py, streamlit_app.py).
AddDocuments ==
    /\ op = "idle"
    /\ UNCHANGED local
    /\ \E c \in IngestCalls, e \in SmallEnvs, chroma \in BOOLEAN :
        /\ Len(load_items(file)) + Len(c.texts) <= MaxFile
        /\ Len(store) + Len(c.texts) <= MaxStore
        /\ \E r \in add_documents_to_chroma(store, file, c.texts, c.metadatas,
                        e, chroma, OpenOutcomes, AddOutcomes, MaxFaults) :
              /\ store' = r.store
              /\ file' = r.file
              /\ op' = "add_documents_to_chroma"
              /\ args' = [texts |-> c.texts, metadatas |-> c.metadatas,
                          dim |-> EmbDim(get_embedding_function(e).fn)]
              /\ trace' = r.trace
              /\ raised' = r.raised
              /\ ret' = None

\* A caller searches the stores.
SearchChroma ==
    /\ op = "idle"
    /\ \E query \in QueryPool, k \in 1..MaxK, e \in SmallEnvs, chroma \in BOOLEAN :
        \E r \in search_chroma(store, file, query, k, e, chroma,
                               OpenOutcomes, SimOutcomes, MaxFaults) :
          /\ store' = r.store
          /\ op' = "search_chroma"
          /\ args' = [query |-> query, k |-> k]
          /\ trace' = r.trace
          /\ raised' = r.raised
          /\ ret' = r.ret
          /\ UNCHANGED <<file, local>>

\* The application asks a question: run_query(query), with the default k
\* (app.py, line 76).
RunQuery ==
    /\ op = "idle"
    /\ \E query \in QueryPool, e \in SmallEnvs, chroma \in BOOLEAN :
        \E r \in run_query(store, file, query, DefaultK, e, chroma,
                           OpenOutcomes, SimOutcomes, MaxFaults) :
          /\ store' = r.store
          /\ op' = "run_query"
          /\ args' = [query |-> query, k |-> DefaultK]
          /\ trace' = r.trace
          /\ raised' = r.raised
          /\ ret' = r.ret
          /\ UNCHANGED <<file, local>>

\* Something outside the program leaves a file that does not parse.
CorruptFallbackFile ==
    /\ op = "idle"
    /\ file.kind # "corrupt"
    /\ file' = Corrupt
    /\ UNCHANGED <<store, op, args, trace, raised, ret, local>>

\* The caller has taken the result of the call; the next call can start.
Return ==
    /\ op # "idle"
    /\ op' = "idle"
    /\ args' = None
    /\ trace' = <<>>
    /\ raised' = FALSE
    /\ ret' = None
    /\ UNCHANGED <<store, file, local>>

Next == AddDocuments \/ SearchChroma \/ RunQuery \/ CorruptFallbackFile \/ Return

Spec == Init /\ [][Next]_vars

----------------------------------------------------------------------------
(* Opening the vector store: get_chroma_db on the stores one ingest leaves, *)
(* with every message an open may fail with.                                *)

StoresIn ==
    {<<>>} \cup
    { add_texts(<<>>, c.texts, c.metadatas, get_embedding_function(e).fn, Ok).store
      : <<c, e>> \in IngestCalls \X SmallEnvs }

InitOpen ==
    /\ store \in StoresIn
    /\ file = Absent
    /\ Idle
    /\ local = None

GetChromaDb ==
    /\ op = "idle"
    /\ \E e \in SmallEnvs, chroma \in BOOLEAN :
        \E r \in get_chroma_db(store, e, chroma, Outcomes, MaxFaults) :
          /\ store' = r.store
          /\ op' = "get_chroma_db"
          /\ args' = [e |-> e, chroma |-> chroma]
          /\ trace' = r.trace
          /\ raised' = r.raised
          /\ ret' = [db |-> r.db, fn |-> r.fn]
          /\ UNCHANGED <<file, local>>

NextOpen == GetChromaDb \/ Return

SpecOpen == InitOpen /\ [][NextOpen]_vars

----------------------------------------------------------------------------
(* Resolving the embedding provider in every environment. *)

GetEmbeddingFunction ==
    /\ op = "idle"
    /\ \E e \in ProviderEnvs :
        LET r == get_embedding_function(e)
        IN  /\ op' = "get_embedding_function"
            /\ args' = e
            /\ trace' = <<>>
            /\ raised' = (r.kind = "raise")
            /\ ret' = r.fn
            /\ UNCHANGED <<store, file, local>>

NextResolve == GetEmbeddingFunction \/ Return

SpecResolve == Init /\ [][NextResolve]_vars

----------------------------------------------------------------------------
(* The ingestion steps of the application (app.py): web, pdf, all. *)

\* What requests.get and the parser give for a URL, and whether the copy
\* under data/web_content could be written.
Pages ==
    [fetched : BOOLEAN, text : {EmptyStr, TextB}, saved : BOOLEAN]

\* web_crawler.py, lines 11-35: the text of the page, "" on any exception.
fetch_web_content(page) ==
    IF page.fetched /\ page.saved THEN page.text ELSE EmptyStr

\* web_crawler.py, lines 37-38.
crawl_webpage(page) == fetch_web_content(page)

\* app.py, lines 19, 27 and 40: the metadata of a crawled page.
SampleUrl == "https://example.com"
SourceMeta(url) == {<<"source", url>>}

\* pdf_scraper.py, lines 122-127: the sections in key order, as many as the
\* bound on the texts of one call admits.  A document whose first words are
\* empty has no text at all (lines 114-119).
SectionKeys == <<"abstract", "introduction", "conclusion", "full_text">>
RawSections ==
    {r \in [1..Min(MaxTexts, Len(SectionKeys)) -> {EmptyStr, TextB}] :
        r[1] = EmptyStr => \A i \in DOMAIN r : r[i] = EmptyStr}

\* pdf_scraper.py, line 129: the sections with a text, as key and value.
extract_sections_from_pdf(raw) ==
    SelectSeq([i \in 1..Len(raw) |-> [key |-> SectionKeys[i], value |-> raw[i]]],
              LAMBDA s : s.value # EmptyStr)

\* app.py, line 57.
PdfTexts(sections) ==
    LET kept == SelectSeq(sections, LAMBDA s : s.value # EmptyStr)
    IN  [i \in 1..Len(kept) |-> kept[i].value]

\* app.py, line 58.
PdfMetadatas(sections) ==
    [i \in 1..Len(sections) |-> SourceMeta("temp.pdf - " \o sections[i].key)]

\* The add_documents_to_chroma call of a step; the application runs in one
\* environment, in which no embedding library is installed.
StepAdds(step, texts, metadatas) ==
    /\ Len(load_items(file)) + Len(texts) <= MaxFile
    /\ Len(store) + Len(texts) <= MaxStore
    /\ UNCHANGED local
    /\ \E e \in {EnvStub}, chroma \in BOOLEAN :
        \E r \in add_documents_to_chroma(store, file, texts, metadatas,
                        e, chroma, OpenOutcomes, AddOutcomes, MaxFaults) :
              /\ store' = r.store
              /\ file' = r.file
              /\ op' = step
              /\ args' = [texts |-> texts, metadatas |-> metadatas,
                          dim |-> EmbDim(get_embedding_function(e).fn)]
              /\ trace' = r.trace
              /\ raised' = r.raised
              /\ ret' = None

\* app.py, lines 30-43: "Crawl & Add Webpage" with a URL entered.
WebStep ==
    /\ op = "idle"
    /\ \E page \in Pages :
        StepAdds("web", <<crawl_webpage(page)>>, <<SourceMeta("x")>>)

\* app.py, lines 17-28: "Run Full Pipeline Demo".
FullPipelineStep ==
    /\ op = "idle"
    /\ \E page \in Pages :
        StepAdds("all", <<crawl_webpage(page)>>, <<SourceMeta(SampleUrl)>>)

\* app.py, lines 45-66: "Extract & Add PDF" with a file uploaded.
PdfStep ==
    /\ op = "idle"
    /\ \E raw \in RawSections :
        LET sections == extract_sections_from_pdf(raw)
            texts == PdfTexts(sections)
        IN  IF texts # <<>>
            THEN StepAdds("pdf", texts, PdfMetadatas(sections))
            ELSE /\ op' = "pdf"
                 /\ args' = [texts |-> texts, metadatas |-> <<>>, dim |-> 0]
                 /\ UNCHANGED <<store, file, trace, raised, ret, local>>

NextApp == WebStep \/ FullPipelineStep \/ PdfStep \/ Return

SpecApp == Init /\ [][NextApp]_vars

----------------------------------------------------------------------------
(* Two add_documents_to_chroma calls on the fallback path (lines 210-226),  *)
(* in two processes of the application, followed step by step.             *)

Procs == {1, 2}

\* The file before the calls: absent, unparsable, an array of one record.
FilesBefore ==
    {Absent, Corrupt, Array(append_loop(<<>>, <<TextB>>, None, <<FakeDim>>, 1))}

\* The local variables of a call at line 210.
Frame(c) ==
    [pc |-> "load", texts |-> c.texts, metadatas |-> c.metadatas, items |-> <<>>]

\* A step of a call; read is the number of records a load has read.
Step(name, p, n) == [ev |-> name, proc |-> p, read |-> n]

InitRace ==
    /\ store = <<>>
    /\ file \in FilesBefore
    /\ Idle
    /\ local \in [Procs -> {Frame(c) : c \in IngestCalls}]

\* Lines 211-216: items = [] or what the file holds.
Load(p) ==
    /\ local[p].pc = "load"
    /\ local' = [local EXCEPT ![p].items = load_items(file), ![p].pc = "embed"]
    /\ trace' = Append(trace, Step("load", p, Len(load_items(file))))
    /\ UNCHANGED <<store, file, op, args, raised, ret>>

\* Lines 217-224: the embeddings, and one record per text appended to items.
Embed(p) ==
    /\ local[p].pc = "embed"
    /\ LET f == local[p]
           embs == [i \in 1..Len(f.texts) |->
                        EmbDim(get_embedding_function(EnvStub).fn)]
       IN  local' = [local EXCEPT
                        ![p].items = append_loop(f.items, f.texts, f.metadatas,
                                                 embs, 1),
                        ![p].pc = "open"]
    /\ trace' = Append(trace, Step("embed", p, 0))
    /\ UNCHANGED <<store, file, op, args, raised, ret>>

\* Line 225: write_text opens the file for writing, which empties it; an
\* empty file does not parse.
OpenForWriting(p) ==
    /\ local[p].pc = "open"
    /\ file' = Corrupt
    /\ local' = [local EXCEPT ![p].pc = "write"]
    /\ trace' = Append(trace, Step("open", p, 0))
    /\ UNCHANGED <<store, op, args, raised, ret>>

\* What the file holds after the text of new was written from its start
\* into a file that held f: the text of new, or, when the text f held is
\* the longer one, the text of new followed by the end of that text.  The
\* lengths of the texts are known where one array extends the other.
Overwritten(f, new) ==
    IF f.kind # "array" \/ f.items = new THEN {Array(new)}
    ELSE LET old == f.items
             extends(a, b) == Len(a) > Len(b) /\ SubSeq(a, 1, Len(b)) = b
         IN  IF extends(new, old) THEN {Array(new)}
             ELSE IF extends(old, new) THEN {Corrupt}
             ELSE {Array(new), Corrupt}

\* Line 225: write_text writes the text of items and closes the file.
WriteText(p) ==
    /\ local[p].pc = "write"
    /\ file' \in Overwritten(file, local[p].items)
    /\ local' = [local EXCEPT ![p].pc = "done"]
    /\ trace' = Append(trace, Step("write", p, 0))
    /\ UNCHANGED <<store, op, args, raised, ret>>

NextRace ==
    \E p \in Procs : Load(p) \/ Embed(p) \/ OpenForWriting(p) \/ WriteText(p)

SpecRace == InitRace /\ [][NextRace]_vars

----------------------------------------------------------------------------
(* chunk_text (pdf_scraper.py, lines 132-143), followed step by step. *)

MaxSize == 2      \* largest chunk_size and overlap of a call
MaxIter == 4      \* iterations of the loop the model follows

\* re.findall(r"\S+", text): the maximal runs of non-whitespace characters
\* of text, in order.
RECURSIVE Words(_)
Words(s) ==
    IF s = <<>> THEN <<>>
    ELSE IF IsSpace(Head(s)) THEN Words(Tail(s))
    ELSE LET k == CHOOSE j \in 1..Len(s) :
                      /\ \A x \in 1..j : ~IsSpace(s[x])
                      /\ (j = Len(s) \/ IsSpace(s[j + 1]))
         IN  <<SubSeq(s, 1, k)>> \o Words(SubSeq(s, k + 1, Len(s)))

\* " ".join(ws)
RECURSIVE Join(_)
Join(ws) ==
    IF ws = <<>> THEN <<>>
    ELSE IF Len(ws) = 1 THEN ws[1]
    ELSE ws[1] \o <<" ">> \o Join(Tail(ws))

\* The position a slice bound stands for in a list of n items: a negative
\* bound counts from the end, and every bound is clipped to 0..n.
SliceBound(b, n) ==
    IF b < 0 THEN (IF b + n < 0 THEN 0 ELSE b + n)
    ELSE IF b > n THEN n ELSE b

\* ws[a:b], a and b counted from 0.
PySlice(ws, a, b) ==
    SubSeq(ws, SliceBound(a, Len(ws)) + 1, SliceBound(b, Len(ws)))

\* The texts and the integers chunk_text is called with.
ChunkTexts ==
    {EmptyStr, <<" ">>, TextB, TextAb, <<"b", " ", " ", "A", " ", "b">>}
ChunkSizes == -1..MaxSize

InitChunk ==
    /\ store = <<>>
    /\ file = Absent
    /\ Idle
    /\ local \in [pc : {"call"}, text : ChunkTexts, chunk_size : ChunkSizes,
                   overlap : ChunkSizes, words : {<<>>}, chunks : {<<>>},
                   i : {0}]

\* Lines 136-138.
ChunkTextEnter ==
    /\ local.pc = "call"
    /\ local' = [local EXCEPT !.pc = "loop", !.words = Words(local.text)]
    /\ UNCHANGED <<store, file, op, args, trace, raised, ret>>

\* Lines 139-142: one iteration of the loop.
ChunkTextIterate ==
    /\ local.pc = "loop"
    /\ local.i < Len(local.words)
    /\ Len(local.chunks) < MaxIter
    /\ LET chunk == PySlice(local.words, local.i, local.i + local.chunk_size)
       IN  local' = [local EXCEPT
                        !.chunks = Append(local.chunks, Join(chunk)),
                        !.i = local.i + (local.chunk_size - local.overlap)]
    /\ UNCHANGED <<store, file, op, args, trace, raised, ret>>

\* Lines 139 and 143: the loop is left and chunks returned.
ChunkTextReturn ==
    /\ local.pc = "loop"
    /\ ~(local.i < Len(local.words))
    /\ local' = [local EXCEPT !.pc = "done"]
    /\ ret' = local.chunks
    /\ UNCHANGED <<store, file, op, args, trace, raised>>

NextChunk == ChunkTextEnter \/ ChunkTextIterate \/ ChunkTextReturn

SpecChunk == InitChunk /\ [][NextChunk]_vars

----------------------------------------------------------------------------
(* Properties *)

\* The events of a trace with a given name.
EventsOf(tr, name) == {i \in 1..Len(tr) : tr[i].ev = name}

\* The vector store completed an add_texts in the call.
VectorAddCompleted(tr) == \E i \in EventsOf(tr, "add_texts") : tr[i].ok

\* The embedding or the file write of the fallback append failed.
FallbackFailed(tr) ==
    \E i \in EventsOf(tr, "embed") \cup EventsOf(tr, "write") : ~tr[i].ok

\* The records a file holds for a reader that treats an absent or
\* unparsable file as empty.
Readable(f) == IF f.kind = "array" THEN f.items ELSE <<>>

\* C1: every item of the source_documents of a run_query call has a non-null
\* text and a metadata mapping, whichever store served the call.
C1_SourceDocumentsHaveText ==
    (op = "run_query" /\ ~raised) =>
        \A i \in 1..Len(ret.source_documents) :
            /\ ret.source_documents[i].text # None
            /\ ret.source_documents[i].metadata # None

\* C2: search_chroma never raises to its caller, whatever the state of the
\* vector store and of the fallback file.
C2_SearchNeverRaises == op = "search_chroma" => ~raised

\* C3: when the vector store completes no add in an add_documents_to_chroma
\* call, the call raises only if the embedding or the file write of the
\* fallback append fails; otherwise it returns and the fallback file holds
\* the readable records of before followed by one record per input text,
\* with that text and its metadata.
C3_FallbackOnStoreFailure ==
    [][ (op = "idle" /\ op' = "add_documents_to_chroma"
            /\ ~VectorAddCompleted(trace'))
        => /\ raised' => FallbackFailed(trace')
           /\ ~FallbackFailed(trace') =>
                /\ ~raised'
                /\ file'.kind = "array"
                /\ Len(file'.items) = Len(Readable(file)) + Len(args'.texts)
                /\ \A i \in 1..Len(args'.texts) :
                     LET d == file'.items[Len(Readable(file)) + i]
                     IN  /\ d.text = args'.texts[i]
                         /\ d.metadata = IF args'.metadatas = None THEN {}
                                         ELSE args'.metadatas[i] ]_vars

\* C3 witness: the first add and the retry after reinitialization both
\* failed, and the call returned after writing the texts with their metadata
\* to the fallback file.
C3_Witness ==
    /\ op = "add_documents_to_chroma"
    /\ ~raised
    /\ Cardinality({i \in EventsOf(trace, "add_texts") : ~trace[i].ok}) = 2
    /\ \E i \in EventsOf(trace, "write") : trace[i].ok
    /\ file.kind = "array"
    /\ file.items[Len(file.items)].metadata = MetaX

\* C4: a fallback append of n texts onto c readable records leaves exactly
\* c + n records: the c earlier ones unchanged, then the n new ones in input
\* order with ids doc-(c+1) .. doc-(c+n); the ids of a file are always
\* doc-1, doc-2, .. in stored order.
C4_AppendMonotone ==
    /\ [][ (op = "idle" /\ op' = "add_documents_to_chroma"
              /\ \E i \in EventsOf(trace', "write") : trace'[i].ok)
           => LET c == Len(Readable(file))
                  n == Len(args'.texts)
              IN  /\ file'.kind = "array"
                  /\ Len(file'.items) = c + n
                  /\ SubSeq(file'.items, 1, c) = Readable(file)
                  /\ \A i \in 1..n :
                       /\ file'.items[c + i].text = args'.texts[i]
                       /\ file'.items[c + i].id = "doc-" \o ToString(c + i) ]_vars
    /\ [](\A i \in 1..Len(file.items) :
             file.items[i].id = "doc-" \o ToString(i))

\* C4 witness: one text was appended to a file that held one record.
C4_Witness ==
    /\ op = "add_documents_to_chroma"
    /\ \E i \in EventsOf(trace, "write") : trace[i].ok
    /\ Len(args.texts) = 1
    /\ Len(file.items) = 2

\* The fallback file was consulted in the call.
FallbackConsulted(tr) == EventsOf(tr, "exists") # {}

\* C5: the fallback search returns the records by descending size of the
\* intersection of the query's and the text's lowercase whitespace-split
\* token sets, records of equal score in stored order, cut to the first k;
\* an absent file gives the empty sequence.
C5_FallbackRanking ==
    (op = "search_chroma" /\ ~raised /\ FallbackConsulted(trace)) =>
        IF file.kind = "absent" THEN ret = <<>>
        ELSE LET data == file.items
                 q == TokenSet(Lower(args.query))
                 sc(i) == Cardinality(q \cap TokenSet(Lower(data[i].text)))
                 Before(i, j) == sc(i) > sc(j) \/ (sc(i) = sc(j) /\ i < j)
                 RankOf(i) == 1 + Cardinality({j \in 1..Len(data) : Before(j, i)})
             IN  /\ Len(ret) = Min(args.k, Len(data))
                 /\ \A r \in 1..Len(ret) :
                      \E i \in 1..Len(data) : RankOf(i) = r /\ ret[r] = data[i]

\* C5 witness: of two stored records the second scores higher, and a search
\* with k = 1 returned it alone.
C5_Witness ==
    /\ op = "search_chroma"
    /\ FallbackConsulted(trace)
    /\ file.kind = "array"
    /\ Len(file.items) = 2
    /\ args.k = 1
    /\ ret = <<file.items[2]>>

\* The last open of the call gave a handle.
HandleObtained(tr) ==
    /\ EventsOf(tr, "open") # {}
    /\ \E i \in EventsOf(tr, "open") :
         /\ tr[i].ok
         /\ \A j \in EventsOf(tr, "open") : j <= i

\* C6: a search consults the fallback store only if no handle was obtained
\* or the vector-store search raised; a vector-store search that returns
\* has its result, empty or not, returned as it is, and the fallback file is
\* not read.
C6_FallbackOnlyOnFailure ==
    op \in {"search_chroma", "run_query"} =>
        LET sims == EventsOf(trace, "similarity_search")
        IN  /\ FallbackConsulted(trace) =>
                 (~HandleObtained(trace) \/ \E i \in sims : ~trace[i].ok)
            /\ (\E i \in sims : trace[i].ok) =>
                 /\ ~FallbackConsulted(trace)
                 /\ EventsOf(trace, "read") = {}
                 /\ ~raised
                 /\ op = "search_chroma" =>
                      /\ Len(ret) = Min(args.k, Len(store))
                      /\ \A i \in 1..Len(ret) :
                           /\ ret[i].kind = "Document"
                           /\ ret[i].page_content = store[i].page_content
                           /\ ret[i].metadata = store[i].metadata

\* C6 witness: the vector store was empty and its search returned; the
\* empty result was returned although the fallback file holds records.
C6_Witness ==
    /\ op = "search_chroma"
    /\ \E i \in EventsOf(trace, "similarity_search") : trace[i].ok
    /\ ret = <<>>
    /\ file.kind = "array"
    /\ Len(file.items) > 0

\* All vectors of the vector store have the same length.
UniformDims == \A i, j \in 1..Len(store) : store[i].dim = store[j].dim

\* The first add_texts of the call, if any.
FirstAdd(tr) ==
    CHOOSE j \in EventsOf(tr, "add_texts") :
        \A i \in EventsOf(tr, "add_texts") : j <= i

\* The first add_texts of the call was refused because the index holds
\* vectors of another length.
MismatchPresented(tr) ==
    /\ EventsOf(tr, "add_texts") # {}
    /\ ~tr[FirstAdd(tr)].ok
    /\ tr[FirstAdd(tr)].msg = <<"Embedding", "dimension">>

\* The records an add of the call's texts puts into the vector store.
NewDocs(a) ==
    [i \in 1..Len(a.texts) |->
        [page_content |-> a.texts[i],
         metadata |-> IF a.metadatas = None THEN {} ELSE a.metadatas[i],
         dim |-> a.dim]]

IsAddDimensionMessage(m) ==
    \E i \in 1..Len(m) :
        m[i] \in {"dimension", "Dimension", "mismatch", "MISMATCH", "shape", "Shape"}

IsOpenDimensionMessage(m) ==
    \E i \in 1..Len(m) :
        m[i] \in {"dimension", "Dimension", "embedding", "Embedding",
                  "mismatch", "MISMATCH"}

\* C9: get_chroma_db never raises and always returns the resolved embedding
\* function, also with no handle; it opens the store at most twice, and
\* reinitializes the directory only between the two opens and only after a
\* first failure whose message holds dimension, embedding or mismatch.
C9_OpenContract ==
    op = "get_chroma_db" =>
        LET opens == EventsOf(trace, "open")
            reinits == EventsOf(trace, "reinit")
        IN  /\ ~raised
            /\ ret.fn # NoFn
            /\ ret.fn = get_embedding_function(args.e).fn
            /\ Cardinality(opens) <= 2
            /\ Cardinality(reinits) <= 1
            /\ opens \cup reinits = 1..Len(trace)
            /\ reinits # {} =>
                 /\ reinits = {2}
                 /\ opens = {1, 3}
                 /\ ~trace[1].ok
                 /\ IsOpenDimensionMessage(trace[1].msg)
            /\ Cardinality(opens) = 2 => reinits = {2}
            /\ ret.db <=> HandleObtained(trace)
            /\ ~args.chroma => (trace = <<>> /\ ~ret.db)

\* C9 witness: the open failed, the directory was reinitialized, the open
\* failed again; no handle, and the embedding function was returned.
C9_Witness ==
    /\ op = "get_chroma_db"
    /\ Cardinality(EventsOf(trace, "open")) = 2
    /\ ~ret.db
    /\ ret.fn.tier = "hf"

\* The constructor of a tier returns an object.
GroqConstructed(e) ==
    /\ e.groqLib /\ e.groqKey
    /\ e.groqCtor = "ok" \/ (e.groqCtor = "TypeError" /\ e.groqCtor0 = "ok")
HfConstructed(e) == e.hfLib /\ e.hfCtor = "ok"
StConstructed(e) == e.stLib /\ e.stCtor = "ok"

\* C10 as claimed: get_embedding_function never raises and returns the
\* function of the first tier, in the order remote, local model, direct
\* load, stub, whose preconditions hold and whose construction succeeds.
C10_FirstConstructedTier ==
    op = "get_embedding_function" =>
        /\ ~raised
        /\ ret.tier = IF GroqConstructed(args) THEN "groq"
                      ELSE IF HfConstructed(args) THEN "hf"
                      ELSE IF StConstructed(args) THEN "st"
                      ELSE "fake"

\* C10 amended: the same, the remote tier being chosen only if its object
\* also has an embed_documents or an embed method.
C10_FirstUsableTier ==
    op = "get_embedding_function" =>
        /\ ~raised
        /\ ret.tier = IF GroqConstructed(args)
                         /\ args.groqShape \in {"embed_documents", "embed"}
                      THEN "groq"
                      ELSE IF HfConstructed(args) THEN "hf"
                      ELSE IF StConstructed(args) THEN "st"
                      ELSE "fake"
        /\ (~args.groqKey /\ ~args.hfLib /\ ~args.stLib) => ret.tier = "fake"

\* C10 witness: the constructors of the remote tier and of the local model
\* failed, no direct load was possible, and the stub was returned.
C10_Witness ==
    /\ op = "get_embedding_function"
    /\ args.groqLib /\ args.groqKey /\ args.groqCtor = "Exception"
    /\ args.hfLib /\ args.hfCtor = "Exception"
    /\ ~args.stLib
    /\ ret.tier = "fake"

\* C11: an add_documents_to_chroma call, however it ends, leaves the fallback
\* file with the content it had before the call or with the complete array
\* of the readable records of before followed by one record per text, never
\* with a partial or unparsable content.
C11_AtomicRewrite ==
    [][ (op = "idle" /\ op' = "add_documents_to_chroma")
        => \/ file' = file
           \/ /\ file'.kind = "array"
              /\ Len(file'.items) = Len(Readable(file)) + Len(args'.texts)
              /\ SubSeq(file'.items, 1, Len(Readable(file))) = Readable(file) ]_vars

\* C12: every record of the fallback file has a non-empty text, whatever
\* sequence of web, pdf and full-pipeline steps the application ran, a failed
\* crawl included.
C12_NoEmptyText ==
    \A i \in 1..Len(file.items) : file.items[i].text # EmptyStr

\* The first add_texts of the call failed.
FirstAddFailed(tr) ==
    /\ EventsOf(tr, "add_texts") # {}
    /\ ~tr[FirstAdd(tr)].ok

\* The events of a call after its first add_texts.
AfterFirstAdd(tr) == SubSeq(tr, FirstAdd(tr) + 1, Len(tr))

\* C13 as claimed: the add path classifies with the pattern of the open
\* path: add_documents_to_chroma reinitializes the persist directory and
\* retries after exactly those add failures whose message holds, in any
\* case, dimension, embedding or mismatch.
C13_AddUsesOpenPattern ==
    (op = "add_documents_to_chroma" /\ FirstAddFailed(trace)) =>
        (EventsOf(AfterFirstAdd(trace), "reinit") # {}
            <=> IsOpenDimensionMessage(trace[FirstAdd(trace)].msg))

\* C13 amended: the add path has a pattern of its own: the directory is
\* reinitialized, right after the failure, after exactly those add failures
\* whose message holds, in any case, dimension, mismatch or shape, and the
\* add is retried exactly when the reopening then yields a handle.
C13_AddUsesOwnPattern ==
    (op = "add_documents_to_chroma" /\ FirstAddFailed(trace)) =>
        LET rest == AfterFirstAdd(trace)
            matches == IsAddDimensionMessage(trace[FirstAdd(trace)].msg)
        IN  /\ EventsOf(rest, "reinit") # {} <=> matches
            /\ matches => rest[1].ev = "reinit"
            /\ EventsOf(rest, "add_texts") # {}
                   <=> (matches /\ HandleObtained(SubSeq(rest, 2, Len(rest))))

\* C13 witness: the first add failed with "Shape", the directory was
\* reinitialized and the retried add succeeded.
C13_Witness ==
    /\ op = "add_documents_to_chroma"
    /\ FirstAddFailed(trace)
    /\ trace[FirstAdd(trace)].msg = MsgShape
    /\ trace[FirstAdd(trace) + 1].ev = "reinit"
    /\ VectorAddCompleted(trace)

\* Both calls have written.
BothDone == \A p \in Procs : local[p].pc = "done"

\* The position of a step of a call among the steps taken.
StepAt(name, p) ==
    CHOOSE i \in 1..Len(trace) : trace[i].ev = name /\ trace[i].proc = p

\* One call wrote before the other loaded.
OneAfterTheOther ==
    \E p, q \in Procs : p # q /\ StepAt("write", p) < StepAt("load", q)

\* The records the file held before the calls, as the first load read them,
\* plus the texts of both calls.
CountOfBoth ==
    trace[1].read + Len(local[1].texts) + Len(local[2].texts)

\* C14: two fallback appends can lose an update.  After both have written,
\* the file holds the records of before and one per text of both calls
\* exactly when one call wrote before the other loaded; when their steps
\* interleaved it holds fewer: what it holds is at most the array of the
\* call that wrote last, built on what that call had loaded, without the
\* records of the other call.
C14_LostUpdate ==
    BothDone =>
        /\ Len(Readable(file)) <= CountOfBoth
        /\ Len(Readable(file)) = CountOfBoth <=> OneAfterTheOther
        /\ file.kind = "array" =>
              \E p \in Procs :
                  /\ file.items = local[p].items
                  /\ \A q \in Procs : StepAt("write", q) <= StepAt("write", p)

\* C14 witness: both calls loaded the one record of the file before either
\* wrote; the file holds that record and the texts of the last writer only.
C14_Witness ==
    /\ BothDone
    /\ trace[1].read = 1
    /\ file.kind = "array"
    /\ Len(file.items) < CountOfBoth
    /\ Len(file.items) > 1

C16_ChunkTextTerminates ==
    [][ (local.pc = "loop" /\ local'.pc = "loop" /\ local' # local)
        => Len(local.words) - local'.i < Len(local.words) - local.i ]_vars
=============================================================================
